---- MODULE Spec2Model ----
(***************************************************************************)
(* Model of the CAS Type#6 scales driver (scales_driver/drivers.py) and of *)
(* the polling program that drives it (main.py).                           *)
(*                                                                         *)
(* Bytes are the integers 0..255, a bytes object is a sequence of them     *)
(* (Python index i is TLA+ index i+1).  The serial port is pyserial's      *)
(* Serial: is_open, an input buffer that keeps what arrived and was not    *)
(* read yet, write/read/open/close that may raise SerialException.         *)
(***************************************************************************)
EXTENDS Integers, Sequences, FiniteSets, TLC

(***************************************************************************)
(* Bound of the model: the longest input buffer content kept between two   *)
(* driver calls (bytes that arrived after a read had returned).            *)
(***************************************************************************)
MaxBuf == 1

---------------------------------------------------------------------------
(* Generic: units and statuses                                             *)

GR == "gr"
KG == "kg"
LB == "lb"
STATUS_OVERLOAD == 0
STATUS_STABLE == 1
STATUS_UNSTABLE == 2

---------------------------------------------------------------------------
(* CASType6: control codes and frame layout                                *)

ENQ == 5
ACK == 6
DC1 == 17
WRAP == <<1, 2, 3, 4>>
DATA_LEN == 15

(* slices of the response, as 1-based inclusive index pairs *)
PREFIX_ADDR == <<1, 2>>
STA_ADDR == 3
SIGN_ADDR == 4
UNIT_ADDR == <<11, 12>>
DATA_ADDR == <<3, 12>>
WEIGHT_ADDR == <<4, 10>>
BCC_ADDR == 13
SUBFIX_ADDR == <<14, 15>>

(* response[slice]: Python slicing clips to the length and never raises *)
Slice(response, addr) ==
    LET hi == IF addr[2] < Len(response) THEN addr[2] ELSE Len(response)
    IN  IF addr[1] > hi THEN <<>> ELSE SubSeq(response, addr[1], hi)

(* the dict STATUS: status byte -> status; None is modelled as -1 *)
NONE == -1
STATUS(sta) ==
    CASE sta = 83 -> STATUS_STABLE
      [] sta = 85 -> STATUS_UNSTABLE
      [] sta = 70 -> STATUS_OVERLOAD
      [] OTHER -> NONE

(* the dict UNIT: two unit bytes -> unit; None is modelled as "None" *)
UNIT(un) ==
    CASE un = <<32, 103>> -> GR
      [] un = <<107, 103>> -> KG
      [] un = <<108, 98>> -> LB
      [] OTHER -> "None"

---------------------------------------------------------------------------
(* a local variable: Bind(e, LAMBDA x : body) is body with x standing for  *)
(* the value of e                                                          *)
Bind(e, F(_)) == F(e)

---------------------------------------------------------------------------
(* bcc: XOR fold of a byte sequence                                        *)

RECURSIVE Xor(_, _)
Xor(a, b) ==
    IF a = 0 THEN b
    ELSE IF b = 0 THEN a
    ELSE (((a % 2) + (b % 2)) % 2) + 2 * Xor(a \div 2, b \div 2)

RECURSIVE bcc(_)
bcc(data) ==
    IF data = <<>> THEN 0
    ELSE Xor(bcc(SubSeq(data, 1, Len(data) - 1)), data[Len(data)])

---------------------------------------------------------------------------
(* check_response: "ok" or the protocol violation it raises                *)

(* check_response that compares the checksum before the envelope *)
check_response_BccFirst(response) ==
    IF Len(response) # DATA_LEN THEN "len"
    ELSE IF bcc(Slice(response, DATA_ADDR)) # response[BCC_ADDR] THEN "bcc"
    ELSE IF Slice(response, PREFIX_ADDR) \o Slice(response, SUBFIX_ADDR) # WRAP
         THEN "wrap"
    ELSE "ok"

(* check_response without the comparison of the checksum *)
check_response_NoBcc(response) ==
    IF Len(response) # DATA_LEN THEN "len"
    ELSE IF Slice(response, PREFIX_ADDR) \o Slice(response, SUBFIX_ADDR) # WRAP
         THEN "wrap"
    ELSE "ok"

(* check_response without the length check *)
check_response_NoLen(response) ==
    IF Slice(response, PREFIX_ADDR) \o Slice(response, SUBFIX_ADDR) # WRAP
    THEN "wrap"
    ELSE IF bcc(Slice(response, DATA_ADDR)) # response[BCC_ADDR] THEN "bcc"
    ELSE "ok"

check_response(response) ==
    IF Len(response) # DATA_LEN THEN "len"
    ELSE IF Slice(response, PREFIX_ADDR) \o Slice(response, SUBFIX_ADDR) # WRAP
         THEN "wrap"
    ELSE IF bcc(Slice(response, DATA_ADDR)) # response[BCC_ADDR] THEN "bcc"
    ELSE "ok"

---------------------------------------------------------------------------
(* decimal.Decimal, as far as the driver uses it.                          *)
(* A Decimal is [kind, sign, coef, exp]: kind "finite" is                  *)
(* (-1)^sign * coef * 10^exp, "inf" an infinity, "nan"/"snan" a quiet or   *)
(* signaling NaN whose payload is coef.                                    *)

Dec(kind, sign, coef, exp) ==
    [kind |-> kind, sign |-> sign, coef |-> coef, exp |-> exp]

(* Decimal(0), the weight __init__ sets *)
DecZero == Dec("finite", 0, 0, 0)

(* str.isspace for the ASCII range: TAB..CR, FS..US, space *)
IsSpace(b) == b \in (9..13) \cup (28..32)
IsDigit(b) == b \in 48..57
ToLower(b) == IF b \in 65..90 THEN b + 32 ELSE b

RECURSIVE Strip(_)
Strip(s) ==
    IF s = <<>> THEN s
    ELSE IF IsSpace(s[1]) THEN Strip(Tail(s))
    ELSE IF IsSpace(s[Len(s)]) THEN Strip(SubSeq(s, 1, Len(s) - 1))
    ELSE s

NotUnderscore(b) == b # 95
AllDigits(s) == \A i \in 1..Len(s) : IsDigit(s[i])

RECURSIVE DigitsVal(_)
DigitsVal(s) ==
    IF s = <<>> THEN 0
    ELSE 10 * DigitsVal(SubSeq(s, 1, Len(s) - 1)) + (s[Len(s)] - 48)

(* index of the first occurrence of byte b in s, 0 when there is none *)
IndexOf(s, b) ==
    IF \E i \in 1..Len(s) : s[i] = b
    THEN CHOOSE i \in 1..Len(s) : s[i] = b /\ \A j \in 1..(i - 1) : s[j] # b
    ELSE 0

StartsWith(s, p) == Len(s) >= Len(p) /\ SubSeq(s, 1, Len(p)) = p

(* the exponent part "[-+]?\d+" *)
ExpOk(e) ==
    Bind(IF e # <<>> /\ e[1] \in {43, 45} THEN Tail(e) ELSE e,
         LAMBDA d : d # <<>> /\ AllDigits(d))
ExpVal(e) ==
    IF e[1] = 45 THEN 0 - DigitsVal(Tail(e))
    ELSE IF e[1] = 43 THEN DigitsVal(Tail(e))
    ELSE DigitsVal(e)

(* Decimal(str) for an ASCII string: the value, or "InvalidOperation" for  *)
(* a string that is no numeric literal.  Whitespace around the literal and *)
(* underscores are dropped, letters are case-insensitive.                  *)
InvalidLiteral == [exc |-> "InvalidOperation", val |-> DecZero]

(* "nan" or "snan" and its payload of digits *)
NaNFromString(kind, sign, payload) ==
    IF AllDigits(payload)
    THEN [exc |-> "none", val |-> Dec(kind, sign, DigitsVal(payload), 0)]
    ELSE InvalidLiteral

(* digits "." digits "e" exponent, with ei the place of "e" in body *)
NumberFromString(sign, body, ei) ==
    Bind(IF ei = 0 THEN body ELSE SubSeq(body, 1, ei - 1), LAMBDA mant :
    Bind(IF ei = 0 THEN <<>> ELSE SubSeq(body, ei + 1, Len(body)), LAMBDA expo :
    Bind(IndexOf(mant, 46), LAMBDA di :
    Bind(IF di = 0 THEN mant ELSE SubSeq(mant, 1, di - 1), LAMBDA int :
    Bind(IF di = 0 THEN <<>> ELSE SubSeq(mant, di + 1, Len(mant)), LAMBDA frac :
        IF /\ AllDigits(int) /\ AllDigits(frac)
           /\ Len(int) + Len(frac) >= 1
           /\ (ei = 0 \/ ExpOk(expo))
        THEN [exc |-> "none",
              val |-> Dec("finite", sign, DigitsVal(int \o frac),
                          (IF ei = 0 THEN 0 ELSE ExpVal(expo)) - Len(frac))]
        ELSE InvalidLiteral)))))

(* the literal after its sign *)
UnsignedFromString(sign, body) ==
    IF body = <<105, 110, 102>>
            \/ body = <<105, 110, 102, 105, 110, 105, 116, 121>>
    THEN [exc |-> "none", val |-> Dec("inf", sign, 0, 0)]
    ELSE IF StartsWith(body, <<110, 97, 110>>)
    THEN NaNFromString("nan", sign, SubSeq(body, 4, Len(body)))
    ELSE IF StartsWith(body, <<115, 110, 97, 110>>)
    THEN NaNFromString("snan", sign, SubSeq(body, 5, Len(body)))
    ELSE NumberFromString(sign, body, IndexOf(body, 101))

DecimalFromString(str) ==
    Bind(SelectSeq(Strip(str), NotUnderscore), LAMBDA u :
    Bind([i \in 1..Len(u) |-> ToLower(u[i])], LAMBDA l :
    Bind(l # <<>> /\ l[1] \in {43, 45}, LAMBDA signed :
        UnsignedFromString(IF signed /\ l[1] = 45 THEN 1 ELSE 0,
                           IF signed THEN Tail(l) ELSE l))))

(* bytes.decode(): UTF-8.  ASCII bytes decode to themselves; the only      *)
(* non-ASCII byte the model feeds is 0xFF, which no UTF-8 sequence holds.  *)
DecodeFails(b) == \E i \in 1..Len(b) : b[i] >= 128

---------------------------------------------------------------------------
(* parse_status, parse_value, parse_unit: [exc, val]                       *)

parse_status(response) ==
    Bind(STATUS(response[STA_ADDR]), LAMBDA st :
        IF st = NONE THEN [exc |-> "ScalesException", val |-> NONE]
        ELSE [exc |-> "none", val |-> st])

(* parse_value that takes the digits without the sign byte *)
parse_value_SkipsSign(response) ==
    Bind(Slice(response, <<SIGN_ADDR + 1, WEIGHT_ADDR[2]>>), LAMBDA value :
        IF DecodeFails(value) THEN [exc |-> "UnicodeDecodeError", val |-> DecZero]
        ELSE DecimalFromString(value))

parse_value(response) ==
    Bind(Slice(response, WEIGHT_ADDR), LAMBDA value :
        IF DecodeFails(value) THEN [exc |-> "UnicodeDecodeError", val |-> DecZero]
        ELSE DecimalFromString(value))

(* parse_unit that takes the unit code one byte too early *)
parse_unit_OffByOne(response) ==
    Bind(UNIT(Slice(response, <<UNIT_ADDR[1] - 1, UNIT_ADDR[2] - 1>>)), LAMBDA un :
        IF un = "None" THEN [exc |-> "ScalesException", val |-> "None"]
        ELSE [exc |-> "none", val |-> un])

parse_unit(response) ==
    Bind(UNIT(Slice(response, UNIT_ADDR)), LAMBDA un :
        IF un = "None" THEN [exc |-> "ScalesException", val |-> "None"]
        ELSE [exc |-> "none", val |-> un])

---------------------------------------------------------------------------
(* The state: a CASType6 session, its serial port, and the program main()  *)

VARIABLES
    status,     \* self.status
    weight,     \* self.weight
    unit,       \* self.unit
    is_open,    \* self.port.is_open
    rxbuf,      \* input buffer of the port: bytes received and not read yet
    pc,         \* position of main(): the statement it executes next
    last,       \* history: the most recent driver call and how it went
    good,       \* history: (status, weight, unit) decoded from the most
                \* recent response that update() validated and decoded whole
    trail       \* history: the latest things main() did, oldest first

vars == <<status, weight, unit, is_open, rxbuf, pc, last, good, trail>>
session == <<status, weight, unit>>

---------------------------------------------------------------------------
(* Serial.write / Serial.read.  An operation of the transport is recorded  *)
(* as [op, arg, ok, data]: its name, the byte written or the number of     *)
(* bytes asked for, whether it returned (FALSE: it raised SerialException) *)
(* and the bytes a read returned.                                          *)

Op(name, arg, ok, data) == [op |-> name, arg |-> arg, ok |-> ok, data |-> data]

Min(a, b) == IF a < b THEN a ELSE b

(* port.read(n): up to n bytes of what is buffered and what arrives before *)
(* the timeout; what is left, and what arrives later, stays buffered       *)
Read(n, buf, arrive, late) ==
    Bind(buf \o arrive, LAMBDA avail :
    Bind(Min(n, Len(avail)), LAMBDA k :
        [data |-> SubSeq(avail, 1, k),
         buf |-> SubSeq(avail, k + 1, Len(avail)) \o late]))

(* read_data that writes DC1 before it reads the acknowledgment *)
read_data_DC1BeforeAck(in) ==
    Bind(Read(1, rxbuf, in.ack.arrive, in.ack.late), LAMBDA a :
    Bind(Read(DATA_LEN, a.buf, in.frm.arrive, in.frm.late), LAMBDA f :
    Bind(Op("write", ENQ, TRUE, <<>>), LAMBDA w1 :
    Bind(Op("read", 1, TRUE, a.data), LAMBDA r1 :
    Bind(Op("write", DC1, TRUE, <<>>), LAMBDA w2 :
        IF ~is_open \/ in.wENQ = "raise"
        THEN [exc |-> "SerialError", response |-> <<>>, rxbuf |-> rxbuf,
              ops |-> <<Op("write", ENQ, FALSE, <<>>)>>]
        ELSE IF in.wDC1 = "raise"
        THEN [exc |-> "SerialError", response |-> <<>>, rxbuf |-> rxbuf,
              ops |-> <<w1, Op("write", DC1, FALSE, <<>>)>>]
        ELSE IF in.ack.raise
        THEN [exc |-> "SerialError", response |-> <<>>, rxbuf |-> rxbuf,
              ops |-> <<w1, w2, Op("read", 1, FALSE, <<>>)>>]
        ELSE IF a.data # <<ACK>>
        THEN [exc |-> "ScalesException", response |-> <<>>, rxbuf |-> a.buf,
              ops |-> <<w1, w2, r1>>]
        ELSE IF in.frm.raise
        THEN [exc |-> "SerialError", response |-> <<>>, rxbuf |-> a.buf,
              ops |-> <<w1, w2, r1, Op("read", DATA_LEN, FALSE, <<>>)>>]
        ELSE [exc |-> "none", response |-> f.data, rxbuf |-> f.buf,
              ops |-> <<w1, w2, r1, Op("read", DATA_LEN, TRUE, f.data)>>])))))

(* read_data that does not compare the acknowledgment with ACK *)
read_data_NoAckCheck(in) ==
    Bind(Read(1, rxbuf, in.ack.arrive, in.ack.late), LAMBDA a :
    Bind(Read(DATA_LEN, a.buf, in.frm.arrive, in.frm.late), LAMBDA f :
    Bind(Op("write", ENQ, TRUE, <<>>), LAMBDA w1 :
    Bind(Op("read", 1, TRUE, a.data), LAMBDA r1 :
    Bind(Op("write", DC1, TRUE, <<>>), LAMBDA w2 :
        IF ~is_open \/ in.wENQ = "raise"
        THEN [exc |-> "SerialError", response |-> <<>>, rxbuf |-> rxbuf,
              ops |-> <<Op("write", ENQ, FALSE, <<>>)>>]
        ELSE IF in.ack.raise
        THEN [exc |-> "SerialError", response |-> <<>>, rxbuf |-> rxbuf,
              ops |-> <<w1, Op("read", 1, FALSE, <<>>)>>]
        ELSE IF in.wDC1 = "raise"
        THEN [exc |-> "SerialError", response |-> <<>>, rxbuf |-> a.buf,
              ops |-> <<w1, r1, Op("write", DC1, FALSE, <<>>)>>]
        ELSE IF in.frm.raise
        THEN [exc |-> "SerialError", response |-> <<>>, rxbuf |-> a.buf,
              ops |-> <<w1, r1, w2, Op("read", DATA_LEN, FALSE, <<>>)>>]
        ELSE [exc |-> "none", response |-> f.data, rxbuf |-> f.buf,
              ops |-> <<w1, r1, w2, Op("read", DATA_LEN, TRUE, f.data)>>])))))

(* read_data with the port's behaviour in.wENQ, in.ack, in.wDC1, in.frm:   *)
(* [exc, response, rxbuf, ops]                                             *)
read_data(in) ==
    Bind(Read(1, rxbuf, in.ack.arrive, in.ack.late), LAMBDA a :
    Bind(Read(DATA_LEN, a.buf, in.frm.arrive, in.frm.late), LAMBDA f :
    Bind(Op("write", ENQ, TRUE, <<>>), LAMBDA w1 :
    Bind(Op("read", 1, TRUE, a.data), LAMBDA r1 :
    Bind(Op("write", DC1, TRUE, <<>>), LAMBDA w2 :
        IF ~is_open \/ in.wENQ = "raise"
        THEN [exc |-> "SerialError", response |-> <<>>, rxbuf |-> rxbuf,
              ops |-> <<Op("write", ENQ, FALSE, <<>>)>>]
        ELSE IF in.ack.raise
        THEN [exc |-> "SerialError", response |-> <<>>, rxbuf |-> rxbuf,
              ops |-> <<w1, Op("read", 1, FALSE, <<>>)>>]
        ELSE IF a.data # <<ACK>>
        THEN [exc |-> "ScalesException", response |-> <<>>, rxbuf |-> a.buf,
              ops |-> <<w1, r1>>]
        ELSE IF in.wDC1 = "raise"
        THEN [exc |-> "SerialError", response |-> <<>>, rxbuf |-> a.buf,
              ops |-> <<w1, r1, Op("write", DC1, FALSE, <<>>)>>]
        ELSE IF in.frm.raise
        THEN [exc |-> "SerialError", response |-> <<>>, rxbuf |-> a.buf,
              ops |-> <<w1, r1, w2, Op("read", DATA_LEN, FALSE, <<>>)>>]
        ELSE [exc |-> "none", response |-> f.data, rxbuf |-> f.buf,
              ops |-> <<w1, r1, w2, Op("read", DATA_LEN, TRUE, f.data)>>])))))

(* update: the exception it ends with ("none": it returns), the step that  *)
(* raised it, and the session fields as the call leaves them               *)
Outcome(rd, exc, step, s, w, u) ==
    [call |-> "update", exc |-> exc, step |-> step,
     status |-> s, weight |-> w, unit |-> u,
     response |-> rd.response, rxbuf |-> rd.rxbuf, ops |-> rd.ops]

update(in) ==
    Bind(read_data(in), LAMBDA rd :
    Bind(check_response(rd.response), LAMBDA chk :
    Bind(parse_status(rd.response), LAMBDA st :
    Bind(parse_value(rd.response), LAMBDA va :
    Bind(parse_unit(rd.response), LAMBDA un :
        IF rd.exc # "none"
        THEN Outcome(rd, rd.exc, "read_data", status, weight, unit)
        ELSE IF chk # "ok"
        THEN Outcome(rd, "ScalesException", chk, status, weight, unit)
        ELSE IF st.exc # "none"
        THEN Outcome(rd, st.exc, "status", status, weight, unit)
        ELSE IF va.exc # "none"
        THEN Outcome(rd, va.exc, "value", st.val, weight, unit)
        ELSE IF un.exc # "none"
        THEN Outcome(rd, un.exc, "unit", st.val, va.val, unit)
        ELSE Outcome(rd, "none", "done", st.val, va.val, un.val))))))

---------------------------------------------------------------------------
(* Decimal arithmetic of get_weight, under the default context: precision  *)
(* 28, ROUND_HALF_EVEN, InvalidOperation trapped.  Coefficients are digit  *)
(* sequences, most significant digit first, <<>> for zero, so that the     *)
(* 45 digits of Decimal(453.595) fit.                                      *)

PREC == 28

Big(kind, sign, digs, exp) ==
    [kind |-> kind, sign |-> sign, digs |-> digs, exp |-> exp]

(* None, where a Decimal is expected *)
NoBig == Big("None", 0, <<>>, 0)

RECURSIVE Digits(_)
Digits(n) == IF n = 0 THEN <<>> ELSE Digits(n \div 10) \o <<n % 10>>

(* the element of a singleton: The({e}) is e, evaluated before it is used,  *)
(* which keeps the evaluation of the long products and quotients shallow  *)
The(S) == CHOOSE x \in S : TRUE

(* a digit sequence without its leading zeros *)
Norm(d) ==
    IF \A i \in 1..Len(d) : d[i] = 0 THEN <<>>
    ELSE SubSeq(d, CHOOSE i \in 1..Len(d) :
                      d[i] # 0 /\ \A j \in 1..(i - 1) : d[j] = 0, Len(d))

Front(d) == SubSeq(d, 1, Len(d) - 1)
Zeros(n) == [i \in 1..n |-> 0]
IsZeroDigs(d) == \A i \in 1..Len(d) : d[i] = 0

(* d * k + carry for a small integer k.  MulSeg multiplies the digits      *)
(* lo..hi of d, the less significant half first: the digits of the        *)
(* product below the carry, and the carry                                 *)
RECURSIVE MulSeg(_, _, _, _, _)
MulSeg(d, k, carry, lo, hi) ==
    IF lo > hi THEN [digs |-> <<>>, carry |-> carry]
    ELSE IF lo = hi
    THEN [digs |-> <<(d[lo] * k + carry) % 10>>,
          carry |-> (d[lo] * k + carry) \div 10]
    ELSE LET mid == (lo + hi) \div 2
         IN  The(UNION {{[digs |-> high.digs \o low.digs, carry |-> high.carry] :
                           high \in {MulSeg(d, k, low.carry, lo, mid)}} :
                        low \in {MulSeg(d, k, carry, mid + 1, hi)}})

MulCarry(d, k, carry) ==
    Bind(MulSeg(d, k, carry, 1, Len(d)), LAMBDA p : Digits(p.carry) \o p.digs)

BInc(d) == Norm(MulCarry(d, 1, 1))

(* a < b, a - b (for a >= b) on normalised digit sequences *)
BLess(a, b) ==
    \/ Len(a) < Len(b)
    \/ /\ Len(a) = Len(b)
       /\ \E i \in 1..Len(a) :
            a[i] < b[i] /\ \A j \in 1..(i - 1) : a[j] = b[j]

(* a - b for a >= b: digit i borrows when the digits of a to its right    *)
(* are less than those of b                                               *)
BSub(a, b) ==
    LET n == Len(a)
        bb == Zeros(n - Len(b)) \o b
        borrow(i) == \E j \in (i + 1)..n :
                        a[j] < bb[j] /\ \A k \in (i + 1)..(j - 1) : a[k] = bb[k]
    IN  Norm([i \in 1..n |->
                (a[i] + 10 - bb[i] - (IF borrow(i) THEN 1 ELSE 0)) % 10])

(* one quotient digit: how many times b fits into r, and what is left *)
RECURSIVE Fit(_, _, _)
Fit(r, b, q) ==
    IF BLess(r, b) THEN [q |-> q, r |-> r] ELSE Fit(BSub(r, b), b, q + 1)

(* divmod(a, b) by long division, b # 0: [q, r].  DivSeg brings down the   *)
(* digits lo..hi of a onto the remainder r, the more significant half     *)
(* first: the quotient digits and the remainder                           *)
RECURSIVE DivSeg(_, _, _, _, _)
DivSeg(a, b, r, lo, hi) ==
    IF lo > hi THEN [q |-> <<>>, r |-> r]
    ELSE IF lo = hi
    THEN Bind(Fit(Norm(r \o <<a[lo]>>), b, 0), LAMBDA f :
              [q |-> <<f.q>>, r |-> f.r])
    ELSE LET mid == (lo + hi) \div 2
         IN  The(UNION {{[q |-> high.q \o low.q, r |-> low.r] :
                           low \in {DivSeg(a, b, high.r, mid + 1, hi)}} :
                        high \in {DivSeg(a, b, r, lo, mid)}})

DivMod(a, b) ==
    Bind(DivSeg(a, b, <<>>, 1, Len(a)), LAMBDA d : [q |-> Norm(d.q), r |-> d.r])

(* Decimal._fix for a finite value within the exponent range: round the    *)
(* coefficient to PREC digits, ROUND_HALF_EVEN                             *)
RoundsUp(keep, rest) ==
    \/ rest[1] > 5
    \/ rest[1] = 5 /\ ~IsZeroDigs(Tail(rest))
    \/ rest[1] = 5 /\ IsZeroDigs(Tail(rest)) /\ keep[PREC] % 2 = 1

Fix(x) ==
    IF Len(x.digs) <= PREC THEN x
    ELSE Bind(SubSeq(x.digs, 1, PREC), LAMBDA keep :
         Bind(SubSeq(x.digs, PREC + 1, Len(x.digs)), LAMBDA rest :
         Bind(IF RoundsUp(keep, rest) THEN BInc(keep) ELSE keep, LAMBDA r :
             IF Len(r) > PREC
             THEN Big("finite", x.sign, Front(r), x.exp + Len(rest) + 1)
             ELSE Big("finite", x.sign, r, x.exp + Len(rest)))))

(* Decimal.__mul__ and Decimal.__truediv__ by a finite nonzero factor f:   *)
(* [exc, val]                                                              *)
ToBig(w) == Big(w.kind, w.sign, Digits(w.coef), w.exp)


Mul(w, f) ==
    IF w.kind = "snan" THEN [exc |-> "InvalidOperation", val |-> ToBig(w)]
    ELSE IF w.kind # "finite" THEN [exc |-> "none", val |-> ToBig(w)]
    ELSE [exc |-> "none",
          val |-> Fix(Big("finite", w.sign, Norm(MulCarry(f.digs, w.coef, 0)),
                          w.exp + f.exp))]

(* strip trailing zeros of an exact quotient, up to the ideal exponent *)
Reduce(digs, exp, ideal) ==
    LET n == Len(digs)
        can(t) == t <= n /\ t <= ideal - exp
                  /\ \A i \in (n - t + 1)..n : digs[i] = 0
        t == CHOOSE k \in 0..n : can(k) /\ ~can(k + 1)
    IN  [digs |-> SubSeq(digs, 1, n - t), exp |-> exp + t]

Quotient(x, f, dm, exp) ==
    IF dm.r # <<>>
    THEN Fix(Big("finite", x.sign,
                 IF dm.q = <<>> \/ dm.q[Len(dm.q)] \in {0, 5}
                 THEN BInc(dm.q) ELSE dm.q, exp))
    ELSE Bind(Reduce(dm.q, exp, x.exp - f.exp), LAMBDA red :
              Fix(Big("finite", x.sign, red.digs, red.exp)))

Div(x, f) ==
    IF x.kind # "finite" THEN x
    ELSE IF x.digs = <<>> THEN Big("finite", x.sign, <<>>, x.exp - f.exp)
    ELSE Bind(Len(f.digs) - Len(x.digs) + PREC + 1, LAMBDA shift :
              Quotient(x, f, DivMod(x.digs \o Zeros(shift), f.digs),
                       x.exp - f.exp - shift))

(* Rescale that drops the discarded digits (ROUND_DOWN) *)
Rescale_Truncates(x, e, keep, rest) ==
    IF Len(keep) > PREC THEN [exc |-> "InvalidOperation", val |-> x]
    ELSE [exc |-> "none", val |-> Big("finite", x.sign, keep, e)]

(* the ROUND_05UP step of quantize: keep, plus one when rest is nonzero    *)
(* and the last digit kept is 0 or 5                                       *)
Rescale(x, e, keep, rest) ==
    Bind(IF ~IsZeroDigs(rest) /\ (keep = <<>> \/ keep[Len(keep)] \in {0, 5})
         THEN BInc(keep) ELSE keep, LAMBDA r :
        IF Len(r) > PREC THEN [exc |-> "InvalidOperation", val |-> x]
        ELSE [exc |-> "none", val |-> Big("finite", x.sign, r, e)])

Quantize(x, places) ==
    Bind(IF places > 0 THEN 0 - places ELSE 0, LAMBDA e :
    Bind(Len(x.digs) - (e - x.exp), LAMBDA kept :
        IF x.kind = "nan" THEN [exc |-> "none", val |-> x]
        ELSE IF x.kind # "finite" THEN [exc |-> "InvalidOperation", val |-> x]
        ELSE IF x.digs = <<>>
        THEN [exc |-> "none", val |-> Big("finite", x.sign, <<>>, e)]
        ELSE IF x.exp >= e
        THEN IF Len(x.digs) + (x.exp - e) > PREC
             THEN [exc |-> "InvalidOperation", val |-> x]
             ELSE [exc |-> "none",
                   val |-> Big("finite", x.sign, x.digs \o Zeros(x.exp - e), e)]
        ELSE IF kept <= 0 THEN Rescale(x, e, <<>>, x.digs)
        ELSE Rescale(x, e, SubSeq(x.digs, 1, kept),
                     SubSeq(x.digs, kept + 1, Len(x.digs)))))

(* FACTOR whose lookup falls back to grams *)
FACTOR_DefaultsToGrams(u) ==
    CASE u = KG -> Big("finite", 0, <<1, 0, 0, 0>>, 0)
      [] u = LB -> Big("finite", 0,
                       <<4,5,3,5,9,5,0,0,0,0,0,0,0,0,0,0,2,7,2,8,4,8,4,
                         1,0,5,3,1,8,7,8,4,7,1,3,7,4,5,1,1,7,1,8,7,5>>, -42)
      [] OTHER -> Big("finite", 0, <<1>>, 0)

(* the dict FACTOR: grams per unit; Decimal(453.595) is the exact value of *)
(* the binary float 453.595                                                *)
FACTOR(u) ==
    CASE u = GR -> Big("finite", 0, <<1>>, 0)
      [] u = KG -> Big("finite", 0, <<1, 0, 0, 0>>, 0)
      [] u = LB -> Big("finite", 0,
                       <<4,5,3,5,9,5,0,0,0,0,0,0,0,0,0,0,2,7,2,8,4,8,4,
                         1,0,5,3,1,8,7,8,4,7,1,3,7,4,5,1,1,7,1,8,7,5>>, -42)
      [] OTHER -> NoBig

(* get_weight(unit, decimal_places) on the committed weight and unit *)
get_weight(u, decimal_places) ==
    Bind(FACTOR(u), LAMBDA factor :
    Bind(Mul(weight, FACTOR(unit)), LAMBDA m :
        IF factor = NoBig THEN [exc |-> "ValueError", val |-> NoBig]
        ELSE IF m.exc # "none" THEN [exc |-> m.exc, val |-> NoBig]
        ELSE Bind(Quantize(Div(m.val, factor), decimal_places), LAMBDA q :
                  IF q.exc # "none" THEN [exc |-> q.exc, val |-> NoBig]
                  ELSE q)))

get_status == status

---------------------------------------------------------------------------
(* scales_init, scales_reinit: the port after the call and the exception   *)
(* the call ends with.  Serial.open raises on a port that is open already, *)
(* and drops what the input buffer held.                                   *)

scales_init(openRaises) ==
    IF is_open \/ openRaises
    THEN [exc |-> "SerialError", ret |-> FALSE, is_open |-> is_open,
          rxbuf |-> rxbuf, ops |-> <<Op("open", 0, FALSE, <<>>)>>]
    ELSE [exc |-> "none", ret |-> TRUE, is_open |-> TRUE,
          rxbuf |-> <<>>, ops |-> <<Op("open", 0, TRUE, <<>>)>>]

(* scales_reinit that opens the port without closing it first: open() on  *)
(* an open port raises, and the failure is swallowed                       *)
scales_reinit_OpensOnly(closeRaises, openRaises) ==
    IF is_open \/ openRaises
    THEN [exc |-> "none", is_open |-> is_open, rxbuf |-> rxbuf,
          ops |-> <<Op("open", 0, FALSE, <<>>)>>]
    ELSE [exc |-> "none", is_open |-> TRUE, rxbuf |-> <<>>,
          ops |-> <<Op("open", 0, TRUE, <<>>)>>]

(* scales_reinit that lets the failure of open() out *)
scales_reinit_Raises(closeRaises, openRaises) ==
    LET closing == IF is_open THEN <<Op("close", 0, ~closeRaises, <<>>)>> ELSE <<>>
    IN  IF is_open /\ closeRaises
        THEN [exc |-> "none", is_open |-> TRUE, rxbuf |-> rxbuf, ops |-> closing]
        ELSE IF openRaises
        THEN [exc |-> "SerialError", is_open |-> FALSE, rxbuf |-> <<>>,
              ops |-> closing \o <<Op("open", 0, FALSE, <<>>)>>]
        ELSE [exc |-> "none", is_open |-> TRUE, rxbuf |-> <<>>,
              ops |-> closing \o <<Op("open", 0, TRUE, <<>>)>>]

scales_reinit(closeRaises, openRaises) ==
    LET closing == IF is_open THEN <<Op("close", 0, ~closeRaises, <<>>)>> ELSE <<>>
    IN  IF is_open /\ closeRaises
        THEN [exc |-> "none", is_open |-> TRUE, rxbuf |-> rxbuf, ops |-> closing]
        ELSE IF openRaises
        THEN [exc |-> "none", is_open |-> FALSE, rxbuf |-> <<>>,
              ops |-> closing \o <<Op("open", 0, FALSE, <<>>)>>]
        ELSE [exc |-> "none", is_open |-> TRUE, rxbuf |-> <<>>,
              ops |-> closing \o <<Op("open", 0, TRUE, <<>>)>>]

---------------------------------------------------------------------------
(* What the device and the line may do during one update()                 *)

(* a response of the device with a well-formed envelope and checksum *)
MkFrame(sta, w, un) ==
    LET data == <<sta>> \o w \o un
    IN  <<1, 2>> \o data \o <<bcc(data)>> \o <<3, 4>>

(* status bytes: Stable, Unstable, and one the driver does not know *)
StaBytes == {83, 85, 0}
(* weight fields: "+000012", "+00A000", "    Inf" and seven 0xFF bytes *)
WeightFields ==
    { <<43, 48, 48, 48, 48, 49, 50>>, <<43, 48, 48, 65, 48, 48, 48>>,
      <<32, 32, 32, 32, 73, 110, 102>>, <<255, 255, 255, 255, 255, 255, 255>> }
(* unit fields: "kg" and "zz" *)
UnitFields == { <<107, 103>>, <<122, 122>> }

Frames == {MkFrame(sta, w, un) : sta \in StaBytes, w \in WeightFields, un \in UnitFields}

Frame1 == MkFrame(83, <<43, 48, 48, 48, 48, 49, 50>>, <<107, 103>>)
Malformed ==
    { <<>>,
      SubSeq(Frame1, 1, 14),
      [Frame1 EXCEPT ![13] = Xor(@, 1)],
      [Frame1 EXCEPT ![1] = 2],
      [Frame1 EXCEPT ![1] = 2, ![13] = Xor(@, 1)] }

Responses == Frames \cup Malformed

NoRead == [raise |-> FALSE, arrive |-> <<>>, late |-> <<>>]
RaiseRead == [raise |-> TRUE, arrive |-> <<>>, late |-> <<>>]

(* the answer to ENQ: the read raises, nothing arrives, ACK or a zero byte *)
(* arrives in time, ACK arrives after the read has timed out               *)
AckIn ==
    { RaiseRead, NoRead,
      [raise |-> FALSE, arrive |-> <<ACK>>, late |-> <<>>],
      [raise |-> FALSE, arrive |-> <<0>>, late |-> <<>>],
      [raise |-> FALSE, arrive |-> <<>>, late |-> <<ACK>>] }

(* the answer to DC1: the read raises, a response arrives in time, or its  *)
(* last byte arrives after the read has timed out                          *)
FrmIn ==
    {RaiseRead}
    \cup {[raise |-> FALSE, arrive |-> r, late |-> <<>>] : r \in Responses}
    \cup {[raise |-> FALSE, arrive |-> SubSeq(Frame1, 1, 14), late |-> <<Frame1[15]>>]}

UpdateIn ==
    {[wENQ |-> "raise", ack |-> NoRead, wDC1 |-> "ok", frm |-> NoRead]}
    \cup {[wENQ |-> "ok", ack |-> a, wDC1 |-> "raise", frm |-> NoRead] : a \in AckIn}
    \cup {[wENQ |-> "ok", ack |-> a, wDC1 |-> "ok", frm |-> f] : a \in AckIn, f \in FrmIn}

---------------------------------------------------------------------------
(* main(): timing constants, in tenths of a second, and the history of     *)
(* what the loop did                                                       *)

RETRY_TIME == 3
RECOVERY_TIME == 50

(* how many of the latest events of main() the history keeps *)
TrailLen == 3

Note(ev) ==
    IF Len(trail) < TrailLen THEN Append(trail, ev)
    ELSE Append(Tail(trail), ev)

NoCall == [call |-> "none", exc |-> "none", step |-> "", response |-> <<>>, ops |-> <<>>]
Call(name, exc, step, response, ops) ==
    [call |-> name, exc |-> exc, step |-> step, response |-> response, ops |-> ops]

Init ==
    /\ status = STATUS_OVERLOAD
    /\ weight = DecZero
    /\ unit = GR
    /\ is_open = FALSE
    /\ rxbuf = <<>>
    /\ pc = "init"
    /\ last = NoCall
    /\ good = <<STATUS_OVERLOAD, DecZero, GR>>
    /\ trail = <<>>

(* line 46: initialized = scales.scales_init() *)
MainInit ==
    /\ pc = "init"
    /\ \E openRaises \in BOOLEAN :
         \E r \in {scales_init(openRaises)} :
             /\ is_open' = r.is_open
             /\ rxbuf' = r.rxbuf
             /\ last' = Call("scales_init", r.exc, "", <<>>, r.ops)
             /\ trail' = Note(<<"scales_init", r.exc>>)
             /\ pc' = IF r.exc = "SerialError" THEN "init_sleep"
                      ELSE IF r.ret THEN "update" ELSE "init"
    /\ UNCHANGED <<status, weight, unit, good>>

(* the initialization loop left after one failed attempt *)
MainInitSleep_LeavesLoop ==
    /\ pc = "init_sleep"
    /\ pc' = "update"
    /\ trail' = Note(<<"sleep", RECOVERY_TIME>>)
    /\ UNCHANGED <<status, weight, unit, is_open, rxbuf, last, good>>

(* line 48: time.sleep(RECOVERY_TIME) *)
MainInitSleep ==
    /\ pc = "init_sleep"
    /\ pc' = "init"
    /\ trail' = Note(<<"sleep", RECOVERY_TIME>>)
    /\ UNCHANGED <<status, weight, unit, is_open, rxbuf, last, good>>

(* the except clause for SerialError without its time.sleep *)
AfterUpdate_NoRecoveryWait(exc) ==
    CASE exc = "none" -> "show"
      [] exc = "ScalesException" -> "update"
      [] exc = "SerialError" -> "reinit"
      [] OTHER -> "crashed"

(* lines 53-64: where the try statement goes when update() returns or      *)
(* raises; an exception no clause catches ends main()                      *)
AfterUpdate(exc) ==
    CASE exc = "none" -> "show"
      [] exc = "ScalesException" -> "update"
      [] exc = "SerialError" -> "recovery_sleep"
      [] OTHER -> "crashed"

(* line 54: scales.update() and the except clauses that catch what it raises *)
MainUpdate ==
    /\ pc = "update"
    /\ \E in \in UpdateIn :
         \E r \in {update(in)} :
             /\ Len(r.rxbuf) <= MaxBuf
             /\ status' = r.status
             /\ weight' = r.weight
             /\ unit' = r.unit
             /\ rxbuf' = r.rxbuf
             /\ last' = Call("update", r.exc, r.step, r.response, r.ops)
             /\ good' = IF r.exc = "none"
                        THEN <<parse_status(r.response).val,
                               parse_value(r.response).val,
                               parse_unit(r.response).val>>
                        ELSE good
             /\ trail' = Note(<<"update", r.exc>>)
             /\ pc' = AfterUpdate(r.exc)
    /\ UNCHANGED is_open

(* lines 55-58: get_weight, get_status and the two prints *)
MainShow ==
    /\ pc = "show"
    /\ \E data \in {get_weight(GR, 1)} :
           /\ trail' = Note(IF data.exc = "none"
                            THEN <<"print", data.val, get_status>>
                            ELSE <<"get_weight", data.exc>>)
           /\ pc' = IF data.exc = "none" THEN "retry_sleep" ELSE "crashed"
    /\ UNCHANGED <<status, weight, unit, is_open, rxbuf, last, good>>

(* line 59: time.sleep(RETRY_TIME) *)
MainRetrySleep ==
    /\ pc = "retry_sleep"
    /\ pc' = "update"
    /\ trail' = Note(<<"sleep", RETRY_TIME>>)
    /\ UNCHANGED <<status, weight, unit, is_open, rxbuf, last, good>>

(* line 64: time.sleep(RECOVERY_TIME) *)
MainRecoverySleep ==
    /\ pc = "recovery_sleep"
    /\ pc' = "reinit"
    /\ trail' = Note(<<"sleep", RECOVERY_TIME>>)
    /\ UNCHANGED <<status, weight, unit, is_open, rxbuf, last, good>>

(* line 65: scales.scales_reinit() *)
MainReinit ==
    /\ pc = "reinit"
    /\ \E closeRaises \in BOOLEAN, openRaises \in BOOLEAN :
         \E r \in {scales_reinit(closeRaises, openRaises)} :
             /\ is_open' = r.is_open
             /\ rxbuf' = r.rxbuf
             /\ last' = Call("scales_reinit", r.exc, "", <<>>, r.ops)
             /\ trail' = Note(<<"scales_reinit", r.exc>>)
             /\ pc' = IF r.exc = "none" THEN "update" ELSE "crashed"
    /\ UNCHANGED <<status, weight, unit, good>>

Next ==
    \/ MainInit
    \/ MainInitSleep
    \/ MainUpdate
    \/ MainShow
    \/ MainRetrySleep
    \/ MainRecoverySleep
    \/ MainReinit

Spec == Init /\ [][Next]_vars

---------------------------------------------------------------------------
(* A client of the driver other than main(): it holds an initialized       *)
(* session and calls update(), get_weight(), get_status() and              *)
(* check_response() in any order, one call at a time.  pc is "api" before  *)
(* a call and "api_called" when the call has ended and last describes it.  *)

(* the most decimal places the client asks get_weight for *)
MaxPlaces == 2

(* a call with its arguments and what it returned *)
Query(name, args, exc, ret) ==
    [call |-> name, args |-> args, exc |-> exc, ret |-> ret]

(* the three status bytes and the three unit codes of the protocol *)
AllStaBytes == {83, 85, 70}
AllUnitFields == { <<32, 103>>, <<107, 103>>, <<108, 98>> }
(* weight fields: "+000012", "-001.25", "+100.05", "+000.29", "+000000" *)
ApiWeights ==
    { <<43, 48, 48, 48, 48, 49, 50>>, <<45, 48, 48, 49, 46, 50, 53>>,
      <<43, 49, 48, 48, 46, 48, 53>>, <<43, 48, 48, 48, 46, 50, 57>>,
      <<43, 48, 48, 48, 48, 48, 48>> }

ApiFrames ==
    {MkFrame(sta, w, un) : sta \in AllStaBytes, w \in ApiWeights, un \in AllUnitFields}

(* the device answers ENQ with ACK and DC1 with the response r, in time *)
Answer(r) ==
    [wENQ |-> "ok", ack |-> [raise |-> FALSE, arrive |-> <<ACK>>, late |-> <<>>],
     wDC1 |-> "ok", frm |-> [raise |-> FALSE, arrive |-> r, late |-> <<>>]]

(* 01 02 53 "+00000" 20 67 0F 00 03 04: a sign and five digits, so that   *)
(* 20 is the last byte of the weight field, 67 0F the unit field and 00    *)
(* the checksum byte, which the XOR of bytes [2,12) equals                 *)
Frame12 == <<1, 2, 83, 43, 48, 48, 48, 48, 48, 32, 103, 15, 0, 3, 4>>

(* responses of the device with one byte of [2,12) replaced on the line:  *)
(* the byte values tried, and the responses they are tried on              *)
ByteVals == {0, 1, 32, 48, 49, 57, 83, 85, 103, 107, 128, 255}
Sent == {Frame1, MkFrame(85, <<45, 48, 48, 49, 46, 50, 53>>, <<108, 98>>)}
Corrupted ==
    UNION {{[f EXCEPT ![p] = b] : b \in ByteVals \ {f[p]}} :
             <<f, p>> \in Sent \X (DATA_ADDR[1]..DATA_ADDR[2])}
(* those that replace a byte by its successor *)
CorruptedByOne ==
    {[f EXCEPT ![p] = (@ + 1) % 256] :
        <<f, p>> \in {Frame1} \X (DATA_ADDR[1]..DATA_ADDR[2])}

ApiResponses == ApiFrames \cup {Frame12} \cup CorruptedByOne

ApiInit ==
    /\ status = STATUS_OVERLOAD
    /\ weight = DecZero
    /\ unit = GR
    /\ is_open = TRUE
    /\ rxbuf = <<>>
    /\ pc = "api"
    /\ last = NoCall
    /\ good = <<STATUS_OVERLOAD, DecZero, GR>>
    /\ trail = <<>>

(* scales.update() *)
ApiUpdate ==
    /\ pc = "api"
    /\ \E response \in ApiResponses :
         \E r \in {update(Answer(response))} :
             /\ status' = r.status
             /\ weight' = r.weight
             /\ unit' = r.unit
             /\ rxbuf' = r.rxbuf
             /\ last' = Call("update", r.exc, r.step, r.response, r.ops)
             /\ good' = IF r.exc = "none"
                        THEN <<parse_status(r.response).val,
                               parse_value(r.response).val,
                               parse_unit(r.response).val>>
                        ELSE good
    /\ pc' = "api_called"
    /\ UNCHANGED <<is_open, trail>>

(* scales.check_response(response) *)
ApiCheckResponse ==
    /\ pc = "api"
    /\ \E response \in Sent \cup Corrupted \cup CorruptedByOne \cup Malformed :
         \E r \in {check_response(response)} :
             last' = Call("check_response",
                          IF r = "ok" THEN "none" ELSE "ScalesException",
                          r, response, <<>>)
    /\ pc' = "api_called"
    /\ UNCHANGED <<status, weight, unit, is_open, rxbuf, good, trail>>

(* scales.get_weight(unit, decimal_places), with a unit of the driver or   *)
(* one it does not know, and 0..MaxPlaces decimal places                   *)
ApiGetWeight ==
    /\ pc = "api"
    /\ \E u \in {GR, KG, LB, "oz"}, d \in 0..MaxPlaces :
         \E r \in {get_weight(u, d)} :
             last' = Query("get_weight", <<u, d>>, r.exc, r.val)
    /\ pc' = "api_called"
    /\ UNCHANGED <<status, weight, unit, is_open, rxbuf, good, trail>>

(* scales.get_status() *)
ApiGetStatus ==
    /\ pc = "api"
    /\ last' = Query("get_status", <<>>, "none", get_status)
    /\ pc' = "api_called"
    /\ UNCHANGED <<status, weight, unit, is_open, rxbuf, good, trail>>

(* the client takes the result, or catches the exception, and goes on *)
ApiReturn ==
    /\ pc = "api_called"
    /\ pc' = "api"
    /\ last' = NoCall
    /\ UNCHANGED <<status, weight, unit, is_open, rxbuf, good, trail>>

ApiNext ==
    \/ ApiUpdate
    \/ ApiCheckResponse
    \/ ApiGetWeight
    \/ ApiGetStatus
    \/ ApiReturn

ApiSpec == ApiInit /\ [][ApiNext]_vars

---------------------------------------------------------------------------
(* Vocabulary of the properties                                            *)

Sentinel == <<STATUS_OVERLOAD, DecZero, GR>>

(* the step taken is a call of update() (with MainUpdate the only action   *)
(* enabled at this position); last' describes the call                     *)
UpdateStep == pc = "update" /\ last'.call = "update"

(* the transport operations of the call described by c *)
NoRaise(c) == \A i \in 1..Len(c.ops) : c.ops[i].ok
AckRead(c) == Len(c.ops) >= 2 /\ c.ops[2].op = "read" /\ c.ops[2].ok
Wrote(c, byte) ==
    \E i \in 1..Len(c.ops) : c.ops[i].op = "write" /\ c.ops[i].arg = byte
FrameRead(c) ==
    Len(c.ops) = 4 /\ c.ops[4].op = "read" /\ c.ops[4].arg = DATA_LEN /\ c.ops[4].ok

(* events of the history of main() *)
IsEv(i, name) == i \in 1..Len(trail) /\ trail[i][1] = name
IsEv2(i, name, x) == IsEv(i, name) /\ trail[i][2] = x
IsLast(i) == i = Len(trail)

---------------------------------------------------------------------------
(* C1: in every reachable state the committed (status, weight, unit) is    *)
(* the initial sentinel (Overload, 0, grams) or exactly the three fields   *)
(* decoded from one single response that passed validation and decoded    *)
(* whole; it never mixes fields of different frames nor holds fields of a  *)
(* frame whose decoding failed.                                            *)
(* The code assigns self.status and self.weight before parse_unit (and     *)
(* self.status before parse_value) can raise: the statement fails.         *)
C1_AtomicTriple == <<status, weight, unit>> = good

(* C2: an update() whose response passes validation, has a recognized      *)
(* status and a parseable weight but an unrecognized unit fails with a     *)
(* protocol violation and leaves status, weight and unit as they were.     *)
(* The code has committed status and weight by then: the statement fails.  *)
BadUnitOnly(response) ==
    /\ check_response(response) = "ok"
    /\ parse_status(response).exc = "none"
    /\ parse_value(response).exc = "none"
    /\ UNIT(Slice(response, UNIT_ADDR)) = "None"

C2_BadUnitCommitsNothing ==
    [][(UpdateStep /\ FrameRead(last') /\ BadUnitOnly(last'.response))
         => (last'.exc = "ScalesException" /\ session' = session)]_vars

(* C3: when the byte read after ENQ is not ACK (a wrong byte, or no byte   *)
(* on timeout) update() fails with a protocol violation, DC1 is not        *)
(* written, no frame is read and (status, weight, unit) stay as they were; *)
(* they also stay as they were when update() fails at the length,          *)
(* envelope, checksum or unrecognized-status step.                         *)
C3_EarlyFailureNoChange ==
    [][UpdateStep =>
         /\ (AckRead(last') /\ last'.ops[2].data # <<ACK>>)
              => /\ last'.exc = "ScalesException"
                 /\ Len(last'.ops) = 2
                 /\ ~Wrote(last', DC1)
                 /\ session' = session
         /\ (FrameRead(last')
              /\ (check_response(last'.response) # "ok"
                    \/ STATUS(last'.response[STA_ADDR]) = NONE))
              => /\ last'.exc = "ScalesException"
                 /\ session' = session]_vars

(* a reading was committed earlier, then the device answered ENQ with 0x00 *)
C3_Witness ==
    /\ last.call = "update"
    /\ AckRead(last) /\ last.ops[2].data = <<0>>
    /\ last.exc = "ScalesException"
    /\ <<status, weight, unit>> # Sentinel

(* C4: the polling loop has no terminal state: every update() ends as a    *)
(* success, a protocol violation or a link error that the loop handles,    *)
(* and a response that passes validation but whose weight field is no      *)
(* decimal literal is handled as a protocol violation.                     *)
(* parse_value raises decimal.InvalidOperation (or UnicodeDecodeError) for *)
(* such a field, which no except clause of main() catches: the statement   *)
(* fails.                                                                  *)
C4_LoopNeverStops ==
    /\ pc # "crashed"
    /\ (/\ last.call = "update" /\ FrameRead(last)
        /\ check_response(last.response) = "ok"
        /\ parse_status(last.response).exc = "none"
        /\ parse_value(last.response).exc # "none")
       => last.exc = "ScalesException"

(* C5: a transport write or read that raises during the exchange makes     *)
(* update() end with a link error (SerialError), never a protocol          *)
(* violation; when nothing raises and the DC1 read returns fewer than 15   *)
(* bytes, update() ends with a protocol violation (the length failure),    *)
(* never a link error.                                                     *)
C5_FailureKinds ==
    last.call = "update" =>
        /\ ~NoRaise(last) => last.exc = "SerialError"
        /\ (NoRaise(last) /\ FrameRead(last) /\ Len(last.ops[4].data) < DATA_LEN)
             => (last.exc = "ScalesException" /\ last.step = "len")

(* the DC1 read timed out with no byte at all *)
C5_Witness ==
    /\ last.call = "update"
    /\ NoRaise(last) /\ FrameRead(last) /\ last.ops[4].data = <<>>
    /\ last.exc = "ScalesException"

(* C6: every update() that ends with a link error is followed, before any  *)
(* further update(), by one wait of the recovery delay and then exactly    *)
(* one scales_reinit(); the loop then calls update() again whether or not  *)
(* the port was reopened, and prints nothing in between.                   *)
C6_LinkErrorRecovery ==
    \A i \in 1..Len(trail) :
        IsEv2(i, "update", "SerialError") =>
            /\ IsLast(i) => pc = "recovery_sleep"
            /\ i + 1 <= Len(trail) =>
                 (IsEv2(i + 1, "sleep", RECOVERY_TIME) /\ (IsLast(i + 1) => pc = "reinit"))
            /\ i + 2 <= Len(trail) =>
                 (IsEv2(i + 2, "scales_reinit", "none") /\ (IsLast(i + 2) => pc = "update"))
            /\ i + 3 <= Len(trail) => IsEv(i + 3, "update")

(* link error, wait, a reinitialization that left the port closed, and the *)
(* loop is about to call update()                                          *)
C6_Witness ==
    \E i \in 1..Len(trail) :
        /\ IsEv2(i, "update", "SerialError")
        /\ IsEv2(i + 1, "sleep", RECOVERY_TIME)
        /\ IsEv(i + 2, "scales_reinit") /\ IsLast(i + 2)
        /\ pc = "update" /\ ~is_open

(* C7: two consecutive update() calls are always separated by a wait: the  *)
(* retry delay after a success or a protocol violation, the recovery delay *)
(* after a link error.                                                     *)
(* After a protocol violation the except clause only passes: the next      *)
(* update() follows at once, and the statement fails.                      *)
C7_DelayBetweenUpdates ==
    \A i \in 1..Len(trail), j \in 1..Len(trail) :
        (/\ i < j /\ IsEv(i, "update") /\ IsEv(j, "update")
         /\ \A k \in (i + 1)..(j - 1) : ~IsEv(k, "update"))
        => \E k \in (i + 1)..(j - 1) :
              IsEv2(k, "sleep", IF trail[i][2] = "SerialError"
                                THEN RECOVERY_TIME ELSE RETRY_TIME)

(* C8: an update() that ends with a protocol violation leaves the loop     *)
(* connected (port untouched, no scales_reinit(), nothing printed, the     *)
(* next call is update()), and a reading is printed in a cycle if and only *)
(* if the update() of that cycle returned without error.                   *)
(* A response whose weight field reads "    Inf" makes update() return and *)
(* get_weight() raise InvalidOperation: nothing is printed and             *)
(* main() ends, so the statement fails.                                    *)
C8_PrintIffUpdated ==
    \A i \in 1..Len(trail) :
        /\ IsEv2(i, "update", "ScalesException") =>
             /\ IsLast(i) => (pc = "update" /\ is_open)
             /\ i + 1 <= Len(trail) => IsEv(i + 1, "update")
        /\ (IsEv(i, "print") /\ i > 1) => IsEv2(i - 1, "update", "none")
        /\ IsEv2(i, "update", "none") =>
             /\ IsLast(i) => pc = "show"
             /\ i + 1 <= Len(trail) => IsEv(i + 1, "print")

(* C9: main() calls update() for the first time only after a scales_init() *)
(* has returned True with the port open; every scales_init() that fails    *)
(* with a link error is followed by a wait of the recovery delay and then  *)
(* another scales_init(), with no update() and no scales_reinit() between. *)
InitPcs == {"init", "init_sleep"}

C9_InitBeforeUpdate ==
    /\ [](pc \in InitPcs => (last.call \in {"none", "scales_init"} /\ ~is_open))
    /\ [](\A i \in 1..Len(trail) :
            IsEv2(i, "scales_init", "SerialError") =>
                /\ IsLast(i) => pc = "init_sleep"
                /\ i + 1 <= Len(trail) =>
                     (IsEv2(i + 1, "sleep", RECOVERY_TIME) /\ (IsLast(i + 1) => pc = "init"))
                /\ i + 2 <= Len(trail) => IsEv(i + 2, "scales_init"))
    /\ [][(pc \in InitPcs /\ pc' \notin InitPcs)
            => (/\ last'.call = "scales_init" /\ last'.exc = "none"
                /\ is_open' /\ pc' = "update")]_vars

(* a failed scales_init(), the wait, a scales_init() that opened the port, *)
(* and the loop is about to call update() for the first time               *)
C9_Witness ==
    \E i \in 1..Len(trail) :
        /\ IsEv2(i, "scales_init", "SerialError")
        /\ IsEv2(i + 1, "sleep", RECOVERY_TIME)
        /\ IsEv2(i + 2, "scales_init", "none") /\ IsLast(i + 2)
        /\ pc = "update" /\ is_open /\ last.call = "scales_init"

(* C10: scales_reinit() never raises on a failure of the transport: it     *)
(* closes the port if it is open, then opens it, and swallows a failure of *)
(* either step; when the port is left closed, the next update() ends with  *)
(* a link error, leaves (status, weight, unit) unchanged, and the loop     *)
(* enters the recovery path again.                                         *)
C10_ReinitBestEffort ==
    /\ [](last.call = "scales_reinit" => last.exc = "none")
    /\ [][pc = "reinit" =>
            LET o == last'.ops
            IN  /\ last'.call = "scales_reinit"
                /\ pc' = "update"
                /\ is_open =>
                     /\ o[1].op = "close"
                     /\ o[1].ok => (Len(o) = 2 /\ o[2].op = "open" /\ is_open' = o[2].ok)
                     /\ ~o[1].ok => Len(o) = 1
                /\ ~is_open =>
                     (Len(o) = 1 /\ o[1].op = "open" /\ is_open' = o[1].ok)]_vars
    /\ [][(pc = "update" /\ ~is_open) =>
            (/\ last'.call = "update" /\ last'.exc = "SerialError"
             /\ session' = session /\ pc' = "recovery_sleep")]_vars

(* a reading was committed, the reopening failed, and the update() that    *)
(* followed ended with a link error                                        *)
C10_Witness ==
    \E i \in 1..Len(trail) :
        /\ IsEv(i, "scales_reinit")
        /\ IsEv2(i + 1, "update", "SerialError") /\ IsLast(i + 1)
        /\ ~is_open /\ pc = "recovery_sleep"
        /\ <<status, weight, unit>> # Sentinel

---------------------------------------------------------------------------
(* a signed decimal literal of the weight field: a sign, then digits with  *)
(* at most one decimal point among them, and what it denotes               *)
PointsOf(w) == {i \in 2..Len(w) : w[i] = 46}
IsLiteral(w) ==
    /\ Len(w) = 7
    /\ w[1] \in {43, 45}
    /\ \A i \in 2..7 : w[i] = 46 \/ w[i] \in 48..57
    /\ Cardinality(PointsOf(w)) <= 1

RECURSIVE LitCoef(_, _)
LitCoef(w, n) ==
    IF n < 2 THEN 0
    ELSE IF w[n] = 46 THEN LitCoef(w, n - 1)
    ELSE 10 * LitCoef(w, n - 1) + (w[n] - 48)

LitDecimal(w) ==
    Dec("finite", IF w[1] = 45 THEN 1 ELSE 0, LitCoef(w, 7),
        IF PointsOf(w) = {} THEN 0 ELSE (CHOOSE i \in PointsOf(w) : TRUE) - 7)

(* the response has the envelope, the checksum, a status byte, a literal   *)
(* and a unit code of the protocol                                         *)
WellFormed(r) ==
    /\ Len(r) = 15
    /\ <<r[1], r[2], r[14], r[15]>> = <<1, 2, 3, 4>>
    /\ r[13] = bcc(SubSeq(r, 3, 12))
    /\ r[3] \in {83, 85, 70}
    /\ IsLiteral(SubSeq(r, 4, 10))
    /\ SubSeq(r, 11, 12) \in {<<32, 103>>, <<107, 103>>, <<108, 98>>}

StatusOfByte(b) ==
    CASE b = 83 -> STATUS_STABLE [] b = 85 -> STATUS_UNSTABLE [] b = 70 -> STATUS_OVERLOAD
UnitOfCode(c) ==
    CASE c = <<32, 103>> -> GR [] c = <<107, 103>> -> KG [] c = <<108, 98>> -> LB

(* C11: for every 15-byte response with the envelope 01 02 .. 03 04, the   *)
(* checksum of bytes [2,12) at position 12, a status byte of 0x53, 0x55,   *)
(* 0x46, a signed decimal literal at [3,10) and a unit code " g", "kg" or  *)
(* "lb" at [10,12), an exchange that succeeds makes update() return and    *)
(* commit exactly the status of byte 2, the value of the literal and the   *)
(* unit of bytes [10,12), whatever the reading was before.                 *)
C11_ValidFrameCommitted ==
    [][(pc = "api" /\ last'.call = "update" /\ FrameRead(last')
          /\ WellFormed(last'.response))
         => /\ last'.exc = "none"
            /\ status' = StatusOfByte(last'.response[3])
            /\ weight' = LitDecimal(SubSeq(last'.response, 4, 10))
            /\ unit' = UnitOfCode(SubSeq(last'.response, 11, 12))]_vars

(* the response Overload "-001.25" "kg" was committed whole *)
C11_Witness ==
    /\ last.call = "update" /\ last.exc = "none"
    /\ last.response = MkFrame(70, <<45, 48, 48, 49, 46, 50, 53>>, <<107, 103>>)
    /\ <<status, weight, unit>> = <<STATUS_OVERLOAD, Dec("finite", 1, 125, -2), KG>>

(* C12: when the device answers DC1 with the 15 bytes                      *)
(* 01 02 53 2B 30 30 30 30 30 20 67 <bcc> 00 03 04, <bcc> being the        *)
(* correct checksum, update() returns without error and the reading is     *)
(* status Stable, weight 0, unit grams.                                    *)
(* These 15 bytes hold a sign and five digits: the layout puts 67 <bcc> in *)
(* the unit field, which is no unit code, and update() raises              *)
(* ScalesException.  The statement fails.                                  *)
C12_ExampleFrame ==
    (last.call = "update" /\ FrameRead(last) /\ last.response = Frame12)
        => /\ last.exc = "none"
           /\ <<status, weight, unit>> = <<STATUS_STABLE, DecZero, GR>>

(* C12 as amended: the response 01 02 53 2B 30 30 30 30 30 30 20 67 <bcc>  *)
(* 03 04 (a sign and six digits, the checksum at position 12) makes        *)
(* update() return with the reading Stable, 0, grams; the 15 bytes of the  *)
(* original example are rejected for their unit field.                     *)
Frame12Fixed == MkFrame(83, <<43, 48, 48, 48, 48, 48, 48>>, <<32, 103>>)

C12_ExampleFrameFixed ==
    /\ (last.call = "update" /\ FrameRead(last) /\ last.response = Frame12Fixed)
         => /\ last.exc = "none"
            /\ <<status, weight, unit>> = <<STATUS_STABLE, DecZero, GR>>
    /\ (last.call = "update" /\ FrameRead(last) /\ last.response = Frame12)
         => (last.exc = "ScalesException" /\ last.step = "unit")

(* the six-digit response was committed *)
C12_Witness ==
    /\ last.call = "update" /\ last.response = Frame12Fixed
    /\ last.exc = "none"
    /\ <<status, weight, unit>> = <<STATUS_STABLE, DecZero, GR>>

(* C13: for every response that passes check_response and every position  *)
(* p in [2,12), the response with the byte at p replaced by a different    *)
(* value is rejected by check_response with the checksum error, and        *)
(* update() commits nothing of it.                                         *)
Passing == {f \in Sent : check_response(f) = "ok"}
OneByteOff(r) ==
    /\ Len(r) = 15
    /\ \E f \in Passing :
         Cardinality({p \in 3..12 : r[p] # f[p]}) = 1
            /\ \A p \in (1..2) \cup (13..15) : r[p] = f[p]

C13_CorruptionRejected ==
    /\ []((last.call = "check_response" /\ OneByteOff(last.response))
            => (last.exc = "ScalesException" /\ last.step = "bcc"))
    /\ [][(pc = "api" /\ last'.call = "update" /\ FrameRead(last')
             /\ OneByteOff(last'.response))
            => /\ last'.exc = "ScalesException" /\ last'.step = "bcc"
               /\ session' = session]_vars

(* check_response rejected the response Stable "+000012" "kg" whose status *)
(* byte had become Unstable, in a session that holds a reading             *)
C13_Witness ==
    /\ last.call = "check_response"
    /\ last.response = [Frame1 EXCEPT ![3] = 85]
    /\ last.step = "bcc"
    /\ <<status, weight, unit>> # Sentinel

(* C14: get_weight called with a unit other than grams, kilograms and      *)
(* pounds fails with the unknown-unit error (ValueError), and neither      *)
(* get_weight, failing or succeeding, nor get_status changes the session:  *)
(* status, weight, unit and the port are after the call what they were     *)
(* before it.                                                              *)
C14_QueriesChangeNothing ==
    [][(pc = "api" /\ last'.call \in {"get_weight", "get_status"})
         => /\ UNCHANGED <<status, weight, unit, is_open, rxbuf>>
            /\ (last'.call = "get_weight" /\ last'.args[1] \notin {GR, KG, LB})
                 => last'.exc = "ValueError"
            /\ last'.call = "get_status"
                 => (last'.exc = "none" /\ last'.ret = status)]_vars

(* get_weight was asked for ounces in a session that holds a reading *)
C14_Witness ==
    /\ last.call = "get_weight"
    /\ last.args[1] = "oz"
    /\ last.exc = "ValueError"
    /\ <<status, weight, unit>> # Sentinel

---------------------------------------------------------------------------
(* The exact conversion, without division: with n the result of            *)
(* get_weight(u, d) in units of 10^-d, |weight| * FACTOR[unit] and         *)
(* FACTOR[u] * 10^-d are brought to integers Have and Step over one power  *)
(* of ten, so that n compares with the exact value as n * Step with Have.  *)

RECURSIVE BigVal(_)
BigVal(d) == IF d = <<>> THEN 0 ELSE 10 * BigVal(Front(d)) + d[Len(d)]

ScaleTo(digs, e, m) == Norm(digs \o Zeros(e - m))
Times(a, k) == Norm(MulCarry(a, k, 0))
Dist(a, b) == IF BLess(a, b) THEN BSub(b, a) ELSE BSub(a, b)

HaveExp == weight.exp + FACTOR(unit).exp
StepExp(u, d) == FACTOR(u).exp - d
Have(u, d) ==
    ScaleTo(MulCarry(FACTOR(unit).digs, weight.coef, 0), HaveExp,
            Min(HaveExp, StepExp(u, d)))
Step(u, d) ==
    ScaleTo(FACTOR(u).digs, StepExp(u, d), Min(HaveExp, StepExp(u, d)))

(* n is a d-place value nearest to the exact one: 2 * |n*step - have| <= step *)
Nearest(have, step, n) ==
    ~BLess(step, Times(Dist(Times(step, n), have), 2))

(* n is within one unit of the last place of the exact value *)
WithinOne(have, step, n) ==
    ~BLess(step, Dist(Times(step, n), have))

(* the value Decimal computes for weight * FACTOR[unit] / FACTOR[u], and   *)
(* its digits and 10^-d as integers over one power of ten                  *)
Computed(u) == Div(Mul(weight, FACTOR(unit)).val, FACTOR(u))
GotFrom(x, d) == ScaleTo(x.digs, x.exp, Min(x.exp, 0 - d))
StepFrom(x, d) == ScaleTo(<<1>>, 0 - d, Min(x.exp, 0 - d))

(* n is the value, or the value cut off after d places when the last digit *)
(* kept is not 0 or 5, or one more than that when it is                    *)
Round05Up(have, step, n) ==
    \/ Times(step, n) = have
    \/ /\ BLess(Times(step, n), have) /\ BLess(have, Times(step, n + 1))
       /\ n % 10 \notin {0, 5}
    \/ /\ n >= 1
       /\ BLess(Times(step, n - 1), have) /\ BLess(have, Times(step, n))
       /\ (n - 1) % 10 \in {0, 5}

Converts(c) == c.call = "get_weight" /\ c.args[1] \in {GR, KG, LB}

---------------------------------------------------------------------------
(* the transport operations of a call, by position and kind *)
IsWrite(c, i, byte) ==
    Len(c.ops) >= i /\ c.ops[i].op = "write" /\ c.ops[i].arg = byte
IsRead(c, i, n) ==
    Len(c.ops) >= i /\ c.ops[i].op = "read" /\ c.ops[i].arg = n
Writes(c, byte) ==
    Cardinality({i \in 1..Len(c.ops) : c.ops[i].op = "write" /\ c.ops[i].arg = byte})
Decoding == {"len", "wrap", "bcc", "status", "value", "unit", "done"}

(* C16: within one update() the transport operations are, in this order,   *)
(* write ENQ, read 1 byte, write DC1, read 15 bytes: exactly one ENQ is    *)
(* written, DC1 is written at most once and only after the 1-byte read     *)
(* returned ACK, the 15-byte read happens only after DC1 was written, and  *)
(* validation and decoding add no transport operation after the frame      *)
(* read.                                                                   *)
C16_RequestOrder ==
    last.call = "update" =>
        /\ Len(last.ops) \in 1..4
        /\ \A i \in 1..(Len(last.ops) - 1) : last.ops[i].ok
        /\ IsWrite(last, 1, ENQ) /\ Writes(last, ENQ) = 1
        /\ Len(last.ops) >= 2 => IsRead(last, 2, 1)
        /\ Writes(last, DC1) <= 1
        /\ Wrote(last, DC1) =>
              /\ IsWrite(last, 3, DC1)
              /\ IsRead(last, 2, 1) /\ last.ops[2].data = <<ACK>>
        /\ (\E i \in 1..Len(last.ops) : IsRead(last, i, DATA_LEN)) =>
              IsRead(last, 4, DATA_LEN) /\ IsWrite(last, 3, DC1) /\ last.ops[3].ok
        /\ last.step \in Decoding =>
              FrameRead(last) /\ last.ops[4].data = last.response

(* an update() ran the whole exchange and then failed on the checksum of   *)
(* the frame it read                                                       *)
C16_Witness ==
    /\ last.call = "update" /\ last.step = "bcc"
    /\ Len(last.ops) = 4 /\ NoRaise(last)
    /\ last.ops[2].data = <<ACK>> /\ last.ops[4].data = last.response

---------------------------------------------------------------------------
(* the three structural checks, each on its own *)
LenOk(r) == Len(r) = 15
WrapOk(r) == <<r[1], r[2], r[14], r[15]>> = <<1, 2, 3, 4>>
BccOk(r) == r[13] = bcc(SubSeq(r, 3, 12))

(* C17: check_response validates length, envelope and checksum in this     *)
(* order and stops at the first failure: a response that is not 15 bytes   *)
(* long gets the length error whatever it holds, a 15-byte response with a *)
(* wrong envelope gets the envelope error even when its checksum is wrong  *)
(* too, the checksum error is reported only for 15-byte responses with a   *)
(* correct envelope, and status, weight and unit are decoded only from     *)
(* responses that passed all three checks.                                 *)
C17_ValidationOrder ==
    [][(UpdateStep /\ FrameRead(last')) =>
         /\ ~LenOk(last'.response) => last'.step = "len"
         /\ (LenOk(last'.response) /\ ~WrapOk(last'.response))
              => last'.step = "wrap"
         /\ last'.step = "bcc"
              <=> /\ LenOk(last'.response) /\ WrapOk(last'.response)
                  /\ ~BccOk(last'.response)
         /\ last'.step \in {"len", "wrap", "bcc"}
              => last'.exc = "ScalesException" /\ session' = session
         /\ last'.step \in {"status", "value", "unit", "done"}
              => /\ LenOk(last'.response) /\ WrapOk(last'.response)
                 /\ BccOk(last'.response)]_vars

(* a 15-byte response with a wrong first byte and a wrong checksum was     *)
(* rejected for its envelope                                               *)
C17_Witness ==
    /\ last.call = "update" /\ FrameRead(last) /\ last.step = "wrap"
    /\ LenOk(last.response) /\ ~BccOk(last.response)

---------------------------------------------------------------------------
(* C18: every frame update() validates and commits is the device's answer  *)
(* to the DC1 of that same update(): bytes of an earlier exchange, such as *)
(* bytes that arrived after its read had timed out, are never consumed as  *)
(* the ACK byte or as frame bytes of a later update().  The bytes buffered *)
(* when update() starts are those of earlier exchanges, and a read returns *)
(* them first, so no read of an update() that returns a byte may start on  *)
(* a buffer that holds one.                                                *)
(* read_data never discards the input buffer: an ACK that arrives after    *)
(* the 1-byte read timed out is returned by the 1-byte read of the next    *)
(* update().  The statement fails.                                         *)
C18_NoStaleBytes ==
    [][(UpdateStep /\ AckRead(last') /\ last'.ops[2].data # <<>>)
         => rxbuf = <<>>]_vars

---------------------------------------------------------------------------
(* whether the port reports open just before operation i of the call c, *)
(* which started with the port reporting was                             *)
OpenBefore(c, i, was) ==
    IF i = 1 THEN was
    ELSE IF c.ops[1].op = "close" /\ c.ops[1].ok THEN FALSE
    ELSE IF c.ops[1].op = "open" /\ c.ops[1].ok THEN TRUE
    ELSE was

(* C19: across a run of main(), with initialization retries, polling, link *)
(* errors and reinitializations in any order, open() is never invoked on a *)
(* port that reports open and close() never on one that reports closed:    *)
(* scales_init() is called only while the port is closed, scales_reinit()  *)
(* closes the port first exactly when it is open, and update() neither     *)
(* opens nor closes.                                                       *)
C19_OpenCloseDiscipline ==
    [][/\ pc \in {"init", "update", "reinit"} =>
            \A i \in 1..Len(last'.ops) :
               /\ last'.ops[i].op = "open" =>
                     (~OpenBefore(last', i, is_open)
                        /\ last'.call \in {"scales_init", "scales_reinit"})
               /\ last'.ops[i].op = "close" =>
                     (OpenBefore(last', i, is_open) /\ last'.call = "scales_reinit")
       /\ pc \notin {"init", "update", "reinit"} =>
            (last' = last /\ is_open' = is_open)
       /\ pc = "init" => (last'.call = "scales_init" /\ ~is_open)
       /\ pc = "update" => (last'.call = "update" /\ is_open' = is_open)
       /\ pc = "reinit" =>
             /\ last'.call = "scales_reinit"
             /\ is_open <=> last'.ops[1].op = "close"
             /\ ~is_open => last'.ops[1].op = "open"]_vars

(* a scales_reinit() found the port open, closed it and opened it again *)
C19_Witness ==
    /\ last.call = "scales_reinit" /\ Len(last.ops) = 2
    /\ last.ops[1] = Op("close", 0, TRUE, <<>>)
    /\ last.ops[2] = Op("open", 0, TRUE, <<>>)
    /\ is_open

====
